---- MODULE Spec2Model ----
(***************************************************************************)
(* Model of the storage-migration core of home_budget_web: the expense and *)
(* income services (app/services), the relational repository               *)
(* (app/repositories/base_repository.py), the JSON load/save seam of the   *)
(* services, the PUT route of the expense router and the feature-flag      *)
(* resolver (app/core/feature_flags.py).                                   *)
(*                                                                         *)
(* A record carries the fields id, currency and notes.  The fields date,   *)
(* category, amount, account and business are written and read back by the *)
(* same code paths as notes and are not modelled; the format conversions   *)
(* of the services only change date and amount.                            *)
(*                                                                         *)
(* A mutating service call is two steps: the primary step (the body of the *)
(* service method up to its call of the dual-write helper) and the shadow  *)
(* step (the body of the dual-write helper, which reads the flags again).  *)
(* The process environment may change between the two.                     *)
(***************************************************************************)
EXTENDS Integers, Sequences, FiniteSets, TLC

\* ---------------------------------------------------------------- bounds
MaxId == 2          \* ids range over 1..MaxId; creates stop beyond it
MaxCalls == 3       \* service calls followed in one run

Ids == 1..MaxId

\* Rows the feature_flags table holds at most.
MaxFlagRows == 2

\* ------------------------------------------------------------- constants
NULL == "NULL"                      \* Python None
DEFAULT_CURRENCY == "ILS"           \* settings.DEFAULT_CURRENCY

get_default_currency == DEFAULT_CURRENCY

\* Fields of a stored record (dict keys / mapped columns that are modelled).
RecordFields == {"id", "currency", "notes"}

NotesValues == {NULL, "n"}

\* ------------------------------------------------------- feature flags
FlagNames == {"USE_DATABASE_STORAGE", "DUAL_WRITE_ENABLED"}

\* Values an FF_<NAME> environment variable takes in the model; "" is unset
\* (os.getenv(env_key, "")).
EnvTokens == {"", "true", "TRUE", "1", "yes", "on", "false", "0", "No", "off", "maybe"}
EnvStateTokens == {"", "true"}

\* str.lower() on the tokens above.
Lower(s) ==
    CASE s = "TRUE" -> "true"
      [] s = "No" -> "no"
      [] OTHER -> s

\* get_flag_from_env: "True" / "False" / "None".
get_flag_from_env(env_value) ==
    IF Lower(env_value) \in {"true", "1", "yes", "on"} THEN "True"
    ELSE IF Lower(env_value) \in {"false", "0", "no", "off"} THEN "False"
    ELSE "None"

\* is_feature_enabled called with db=None, as the services call it: the
\* environment override if recognised, otherwise the default.
is_feature_enabled_env(env_value, default) ==
    LET env_result == get_flag_from_env(env_value)
    IN IF env_result # "None" THEN env_result = "True" ELSE default

\* ------------------------------------------- the feature_flags table
\* FeatureFlag rows (name, user_id, enabled).  NoUser stands for a NULL
\* user_id column (the global row) and for the argument user_id=None.
NoUser == 0
FlagUsers == {1, 2}
FlagRows == [name : FlagNames, user_id : FlagUsers \cup {NoUser}, enabled : BOOLEAN]

\* UniqueConstraint("name", "user_id"): NULL user_ids do not collide, so the
\* table can hold several global rows of one name.
UniqueFlags(T) ==
    \A a, b \in T :
       (a.name = b.name /\ a.user_id = b.user_id /\ a.user_id # NoUser) => a = b

FlagTables ==
    {T \in SUBSET FlagRows : Cardinality(T) <= MaxFlagRows /\ UniqueFlags(T)}

\* Environments of the flag lookups: every token for one variable.
FlagEnvs ==
    {e \in [FlagNames -> EnvTokens] : e["DUAL_WRITE_ENABLED"] \in EnvStateTokens}

PyBool(b) == IF b THEN "True" ELSE "False"

\* query.first() without order_by: one of the rows that match, None when
\* there is none.  The value is the set of results the query can give.
QueryFirst(S) == IF S = {} THEN {"None"} ELSE {PyBool(r.enabled) : r \in S}

\* A lookup that asks for the global row before the row of the user.
flag_query_global_first(flag_name, rows, user_id) ==
    LET user_flag == QueryFirst({r \in rows : r.name = flag_name /\ r.user_id = user_id})
        global_flag == QueryFirst({r \in rows : r.name = flag_name /\ r.user_id = NoUser})
    IN IF global_flag # {"None"} THEN global_flag
       ELSE IF user_id # NoUser THEN user_flag
       ELSE {"None"}

\* The try block of get_flag_from_db: the row of the user first, if a
\* user_id is given, then the global row.
flag_query(flag_name, rows, user_id) ==
    LET user_flag == QueryFirst({r \in rows : r.name = flag_name /\ r.user_id = user_id})
        global_flag == QueryFirst({r \in rows : r.name = flag_name /\ r.user_id = NoUser})
    IN IF user_id # NoUser /\ user_flag # {"None"} THEN user_flag
       ELSE global_flag

\* A lookup without its except clause: the query's exception leaves it.
get_flag_from_db_uncaught(flag_name, store, rows, user_id) ==
    IF store = "failing" THEN {"Raise"}
    ELSE flag_query(flag_name, rows, user_id)

\* get_flag_from_db: store is "failing" when the query raises (the table
\* does not exist yet, the session is broken); except Exception: return None.
get_flag_from_db(flag_name, store, rows, user_id) ==
    IF store = "failing" THEN {"None"}
    ELSE flag_query(flag_name, rows, user_id)

\* A resolution that asks the table before the environment.
is_feature_enabled_db_first(env_value, flag_name, default, user_id, db, store, rows) ==
    LET env_result == get_flag_from_env(env_value)
        db_results == IF db THEN get_flag_from_db(flag_name, store, rows, user_id)
                      ELSE {"None"}
    IN {IF db_result # "None" THEN db_result
        ELSE IF env_result # "None" THEN env_result
        ELSE PyBool(default) : db_result \in db_results}

\* is_feature_enabled: env_value is os.getenv("FF_" + flag_name.upper(), ""),
\* db tells whether a session was passed.  The value is the set of results
\* the call can give ("Raise": an exception leaves it).
is_feature_enabled(env_value, flag_name, default, user_id, db, store, rows) ==
    LET env_result == get_flag_from_env(env_value)
    IN IF env_result # "None" THEN {env_result}
       ELSE IF db
       THEN {IF db_result # "None" THEN db_result ELSE PyBool(default) :
               db_result \in get_flag_from_db(flag_name, store, rows, user_id)}
       ELSE {PyBool(default)}

VARIABLES
    entity,     \* which service / collection this run observes
    env,        \* process environment: FF_<NAME> -> token
    json,       \* JSON file of the collection: sequence of records
    db,         \* relational table of the collection: set of rows
    dbSeq,      \* last value of the table's id sequence
    pend,       \* call between its primary step and its shadow step
    last,       \* observation of the latest step
    calls,      \* service calls made so far
    retired,    \* per store, ids removed by delete / bulk-delete
    repository, \* the services were built with a database session
    flags,      \* the feature_flags table and the latest lookup on it
    writers     \* processes inside create_expense on the JSON file

vars == <<entity, env, json, db, dbSeq, pend, last, calls, retired, repository, flags,
          writers>>

\* Rows of the feature_flags table.
feature_flags == flags.table

\* "ok", or "failing" when a query on the table raises.
flagStore == flags.store

\* The latest flag lookup: its arguments and its result.
resolved == flags.resolved

\* A flag read that passes a session, so that the rows of the table count.
FlagWithSession(name) ==
    "True" \in is_feature_enabled(env[name], name, FALSE, NoUser, TRUE, flagStore,
                                  feature_flags)

\* is_feature_enabled("<NAME>") as the services call it: no default, no
\* user_id, no session.
Flag(name) == is_feature_enabled_env(env[name], FALSE)

\* ------------------------------------------------------------ records
Record(i, c, n) == [id |-> i, currency |-> c, notes |-> n]

\* What a POST body puts in data besides the unmodelled fields
\* (ExpenseCreate / IncomeCreate: currency and notes are Optional).
CreatePayloads == [currency : {NULL, "", DEFAULT_CURRENCY}, notes : NotesValues]

\* (field, value) pairs of a PATCH body (ExpenseUpdate / IncomeUpdate).
UpdateInputs ==
    {<<"id", i>> : i \in Ids}
      \cup {<<"currency", c>> : c \in {NULL, ""}}
      \cup {<<"notes", n>> : n \in NotesValues}
      \cup {<<"bogus", "n">>}

\* Bodies of a PUT after model_dump(exclude_unset=True): the fields that
\* were sent, each possibly null (ExpenseFullUpdate has no id field).
ReplacePayloads ==
    {[x \in {} |-> NULL]}
      \cup [currency : {NULL, ""}]
      \cup [notes : NotesValues]
      \cup [currency : {NULL, ""}, notes : NotesValues]

\* Id lists of a bulk delete: any set of ids, and one list that mixes an id
\* with one that is never assigned.
BulkIds == (SUBSET Ids) \cup {{1, MaxId + 1}}

NoRecord == [id |-> 0, currency |-> NULL, notes |-> NULL]

\* --------------------------------------------------- JSON list helpers
SeqIds(s) == {s[k].id : k \in 1..Len(s)}

SetMax(S) == IF S = {} THEN 0 ELSE CHOOSE m \in S : \A x \in S : x <= m

\* max([e["id"] for e in expenses], default=0) + 1
NextJsonId(s) == SetMax(SeqIds(s)) + 1

RECURSIVE SelectNot(_, _)
\* [e for e in expenses if e["id"] not in ids]
SelectNot(s, ids) ==
    IF s = <<>> THEN <<>>
    ELSE IF Head(s).id \in ids THEN SelectNot(Tail(s), ids)
         ELSE <<Head(s)>> \o SelectNot(Tail(s), ids)

\* Index of the first element with the id (the for ... if ...: break loops),
\* 0 when there is none.
FirstIndex(s, i) ==
    IF i \in SeqIds(s)
    THEN CHOOSE k \in 1..Len(s) : s[k].id = i /\ \A j \in 1..(k - 1) : s[j].id # i
    ELSE 0

\* dict.update / item assignment of one modelled field.
SetField(r, field, value) == [r EXCEPT ![field] = value]

\* ------------------------------------------- relational repository
RowIds(rows) == {r.id : r \in rows}

\* BaseRepository.get
repo_get(rows, i) ==
    IF i \in RowIds(rows) THEN CHOOSE r \in rows : r.id = i ELSE NoRecord

\* A create whose rejected commit leaves the added row behind.
repo_create_no_rollback(rows, seq, data) ==
    LET explicit == "id" \in DOMAIN data
        nid == IF explicit THEN data["id"] ELSE seq + 1
        seq2 == IF explicit THEN seq ELSE seq + 1
        inst == Record(nid, data["currency"], data["notes"])
    IN  IF nid \in RowIds(rows) \/ inst.currency = NULL
        THEN [raised |-> TRUE, rows |-> rows \cup {inst}, seq |-> seq2, instance |-> NoRecord]
        ELSE [raised |-> FALSE, rows |-> rows \cup {inst}, seq |-> seq2, instance |-> inst]

\* BaseRepository.create.  data is a dict of column values; without an
\* "id" key the id comes from the table's sequence.  The commit raises when
\* the primary key is taken or currency is null (nullable=False); the
\* sequence value is used up all the same.
repo_create(rows, seq, data) ==
    LET explicit == "id" \in DOMAIN data
        nid == IF explicit THEN data["id"] ELSE seq + 1
        seq2 == IF explicit THEN seq ELSE seq + 1
        inst == Record(nid, data["currency"], data["notes"])
    IN  IF nid \in RowIds(rows) \/ inst.currency = NULL
        THEN [raised |-> TRUE, rows |-> rows, seq |-> seq2, instance |-> NoRecord]
        ELSE [raised |-> FALSE, rows |-> rows \cup {inst}, seq |-> seq2, instance |-> inst]

\* An update that rebuilds the row from data alone: what data leaves out is
\* emptied.
ApplyDataOnly(r, data) ==
    [f \in RecordFields |->
       IF f \in DOMAIN data THEN data[f] ELSE IF f = "id" THEN r[f] ELSE NULL]

\* hasattr(instance, field) / setattr for every item of data.
ApplyData(r, data) ==
    [f \in RecordFields |-> IF f \in DOMAIN data THEN data[f] ELSE r[f]]

\* BaseRepository.update: None (found = FALSE) when the id is absent.
repo_update(rows, i, data) ==
    LET instance == repo_get(rows, i)
        upd == ApplyData(instance, data)
        rows2 == (rows \ {instance}) \cup {upd}
    IN  IF i \notin RowIds(rows)
        THEN [raised |-> FALSE, found |-> FALSE, rows |-> rows, instance |-> NoRecord]
        ELSE IF upd.id \in RowIds(rows \ {instance}) \/ upd.currency = NULL
        THEN [raised |-> TRUE, found |-> TRUE, rows |-> rows, instance |-> NoRecord]
        ELSE [raised |-> FALSE, found |-> TRUE, rows |-> rows2, instance |-> upd]

\* A delete that reports the row as deleted and leaves it in the table.
repo_delete_keeps_row(rows, i) ==
    [deleted |-> i \in RowIds(rows), rows |-> rows]

\* BaseRepository.delete
repo_delete(rows, i) ==
    IF i \notin RowIds(rows) THEN [deleted |-> FALSE, rows |-> rows]
    ELSE [deleted |-> TRUE, rows |-> {r \in rows : r.id # i}]

\* BaseRepository.bulk_delete
repo_bulk_delete(rows, ids) ==
    [deleted |-> Cardinality({r \in rows : r.id \in ids}),
     rows |-> {r \in rows : r.id \notin ids}]

\* A conversion that leaves the id out, so that the table assigns its own.
convert_to_db_format_without_id(data) == [f \in DOMAIN data \ {"id"} |-> data[f]]

\* ExpenseService._convert_to_db_format / IncomeService._convert_to_db_format:
\* a copy in which date and amount change type; the modelled fields pass.
convert_to_db_format(data) == [f \in DOMAIN data |-> data[f]]

\* ExpenseService._convert_from_db_format: the dict of the row's columns.
convert_from_db_format(inst) == Record(inst.id, inst.currency, inst.notes)

\* ----------------------------------------------- values returned to callers
ResNone == [kind |-> "none", rec |-> NoRecord, flag |-> FALSE, n |-> 0, items |-> <<>>]
ResRecord(r) == [ResNone EXCEPT !.kind = "record", !.rec = r]
ResAbsent == [ResNone EXCEPT !.kind = "absent"]
ResBool(b) == [ResNone EXCEPT !.kind = "bool", !.flag = b]
ResCount(k) == [ResNone EXCEPT !.kind = "count", !.n = k]
ResList(s) == [ResNone EXCEPT !.kind = "list", !.items = s]

\* The rows of the table as a list, in id order.  (The services ask for
\* order_by="-date"; dates are not modelled.)
RECURSIVE RowsAsList(_)
RowsAsList(rows) ==
    IF rows = {} THEN <<>>
    ELSE LET m == CHOOSE r \in rows : \A q \in rows : r.id <= q.id
         IN <<m>> \o RowsAsList(rows \ {m})

\* --------------------------------------------- outcome of a primary step
\* given: the currency of the payload a create was called with ("-" for the
\* other operations).
NoPend == [op |-> "none", id |-> 0, ids |-> {}, data |-> NoRecord,
           result |-> ResNone, given |-> "-"]

Pending(op, i, ids, data, result) ==
    [op |-> op, id |-> i, ids |-> ids, data |-> data, result |-> result, given |-> "-"]

\* A raise that still leaves the dual-write helper to be called, as if the
\* helper call sat in a finally block.
RaisedThenShadow(j, d, s, cause, store) ==
    [json |-> j, db |-> d, seq |-> s, outcome |-> "raised", cause |-> cause,
     result |-> ResNone, store |-> store,
     pend |-> [op |-> "delete", id |-> 1, ids |-> {}, data |-> NoRecord,
               result |-> ResNone, given |-> "-"]]

\* The method raised: cause is "primary" (the store operation raised),
\* "invalid_field" (ValueError of the JSON path) or "key_error".
Raised(j, d, s, cause, store) ==
    [json |-> j, db |-> d, seq |-> s, outcome |-> "raised", cause |-> cause,
     result |-> ResNone, store |-> store, pend |-> NoPend]

\* The method returned without calling the dual-write helper.
Returned(j, d, s, result, store) ==
    [json |-> j, db |-> d, seq |-> s, outcome |-> "ok", cause |-> "none",
     result |-> result, store |-> store, pend |-> NoPend]

\* The primary operation is done and the dual-write helper is called next.
Proceed(j, d, s, store, p) ==
    [json |-> j, db |-> d, seq |-> s, outcome |-> "pending", cause |-> "none",
     result |-> p.result, store |-> store, pend |-> p]

\* ------------------------------------------------------ ExpenseService
\* `self.repository` is None when the service was built without a session.
\* The flag alone, without the check of self.repository.
UseRepositoryUnchecked == Flag("USE_DATABASE_STORAGE")

UseRepository == Flag("USE_DATABASE_STORAGE") /\ repository

\* A list that answers from the JSON file whatever store is selected.
list_expenses_remembered ==
    Returned(json, db, dbSeq, ResList(json), IF UseRepository THEN "db" ELSE "json")

\* ExpenseService.list_expenses
list_expenses ==
    IF UseRepository
    THEN Returned(json, db, dbSeq, ResList(RowsAsList(db)), "db")
    ELSE Returned(json, db, dbSeq, ResList(json), "json")

\* ExpenseService.get_expense
get_expense(expense_id) ==
    IF UseRepository
    THEN Returned(json, db, dbSeq,
                  IF expense_id \in RowIds(db)
                  THEN ResRecord(convert_from_db_format(repo_get(db, expense_id)))
                  ELSE ResAbsent,
                  "db")
    ELSE Returned(json, db, dbSeq,
                  IF expense_id \in SeqIds(json)
                  THEN ResRecord(json[FirstIndex(json, expense_id)])
                  ELSE ResAbsent,
                  "json")

\* A create that stores the payload's currency as it came.
FillCurrencyNever(data) == data

\* if not data.get("currency"): data["currency"] = get_default_currency()
FillCurrency(data) ==
    IF data.currency \in {NULL, ""}
    THEN [data EXCEPT !.currency = get_default_currency]
    ELSE data

\* The JSON branch of create (also the whole of IncomeService.create_income).
json_create(data) ==
    LET new_id == NextJsonId(json)
        d1 == FillCurrency(data)
        expense == Record(new_id, d1.currency, d1.notes)
    IN Proceed(Append(json, expense), db, dbSeq, "json",
               [Pending("create", new_id, {}, expense, ResRecord(expense))
                  EXCEPT !.given = data.currency])

\* ExpenseService.create_expense
create_expense(data) ==
    IF UseRepository
    THEN LET d1 == FillCurrency(data)
             c == repo_create(db, dbSeq, convert_to_db_format(d1))
             expense == convert_from_db_format(c.instance)
         IN IF c.raised
            THEN Raised(json, c.rows, c.seq, "primary", "db")
            ELSE Proceed(json, c.rows, c.seq, "db",
                         [Pending("create", expense.id, {}, expense, ResRecord(expense))
                            EXCEPT !.given = data.currency])
    ELSE json_create(data)

\* The JSON branch of update (also the whole of IncomeService.update_income).
json_update(expense_id, field, value) ==
    LET k == FirstIndex(json, expense_id)
    IN IF k = 0 THEN Returned(json, db, dbSeq, ResAbsent, "json")
       ELSE IF field \notin RecordFields
       THEN Raised(json, db, dbSeq, "invalid_field", "json")
       ELSE LET expense ==
                    IF field = "currency" /\ value = NULL
                    THEN SetField(json[k], "currency", get_default_currency)
                    ELSE SetField(json[k], field, value)
            IN Proceed([json EXCEPT ![k] = expense], db, dbSeq, "json",
                       Pending("update", expense_id, {}, [x \in {field} |-> expense[field]],
                               ResRecord(expense)))

\* ExpenseService.update_expense
update_expense(expense_id, field, value) ==
    IF UseRepository
    THEN IF expense_id \notin RowIds(db)
         THEN Returned(json, db, dbSeq, ResAbsent, "db")
         ELSE LET v == IF field = "currency" /\ value = NULL THEN get_default_currency ELSE value
                  u == repo_update(db, expense_id, convert_to_db_format([x \in {field} |-> v]))
                  expense == convert_from_db_format(u.instance)
              IN IF u.raised
                 THEN Raised(json, db, dbSeq, "primary", "db")
                 ELSE IF field \notin DOMAIN expense
                 THEN Raised(json, u.rows, dbSeq, "key_error", "db")
                 ELSE Proceed(json, u.rows, dbSeq, "db",
                              Pending("update", expense_id, {}, [x \in {field} |-> expense[field]],
                                      ResRecord(expense)))
    ELSE json_update(expense_id, field, value)

\* The JSON branch of delete (also the whole of IncomeService.delete_income).
json_delete(expense_id) ==
    LET expenses == SelectNot(json, {expense_id})
    IN IF Len(expenses) < Len(json)
       THEN Proceed(expenses, db, dbSeq, "json",
                    Pending("delete", expense_id, {}, NoRecord, ResBool(TRUE)))
       ELSE Returned(json, db, dbSeq, ResBool(FALSE), "json")

\* ExpenseService.delete_expense
delete_expense(expense_id) ==
    IF UseRepository
    THEN IF expense_id \notin RowIds(db)
         THEN Returned(json, db, dbSeq, ResBool(FALSE), "db")
         ELSE LET x == repo_delete(db, expense_id)
              IN IF x.deleted
                 THEN Proceed(json, x.rows, dbSeq, "db",
                              Pending("delete", expense_id, {}, NoRecord, ResBool(TRUE)))
                 ELSE Returned(json, x.rows, dbSeq, ResBool(FALSE), "db")
    ELSE json_delete(expense_id)

\* A bulk delete that reports the length of the id list it was given.
json_bulk_delete_counts_ids(ids) ==
    LET expenses == SelectNot(json, ids)
        deleted_count == Cardinality(ids)
    IN IF deleted_count > 0
       THEN Proceed(expenses, db, dbSeq, "json",
                    Pending("bulk_delete", 0, ids, NoRecord, ResCount(deleted_count)))
       ELSE Returned(json, db, dbSeq, ResCount(0), "json")

\* The JSON branch of bulk delete (also IncomeService.bulk_delete_incomes).
json_bulk_delete(ids) ==
    LET expenses == SelectNot(json, ids)
        deleted_count == Len(json) - Len(expenses)
    IN IF deleted_count > 0
       THEN Proceed(expenses, db, dbSeq, "json",
                    Pending("bulk_delete", 0, ids, NoRecord, ResCount(deleted_count)))
       ELSE Returned(json, db, dbSeq, ResCount(0), "json")

\* ExpenseService.bulk_delete_expenses
bulk_delete_expenses(ids) ==
    IF UseRepository
    THEN LET x == repo_bulk_delete(db, ids)
         IN IF x.deleted > 0
            THEN Proceed(json, x.rows, dbSeq, "db",
                         Pending("bulk_delete", 0, ids, NoRecord, ResCount(x.deleted)))
            ELSE Returned(json, x.rows, dbSeq, ResCount(0), "db")
    ELSE json_bulk_delete(ids)

\* ------------------------------------------------------- IncomeService
\* IncomeService reads and writes the JSON file whatever the flags say.
list_incomes == Returned(json, db, dbSeq, ResList(json), "json")

get_income(income_id) ==
    Returned(json, db, dbSeq,
             IF income_id \in SeqIds(json)
             THEN ResRecord(json[FirstIndex(json, income_id)])
             ELSE ResAbsent,
             "json")

create_income(data) == json_create(data)
update_income(income_id, field, value) == json_update(income_id, field, value)
delete_income(income_id) == json_delete(income_id)
bulk_delete_incomes(ids) == json_bulk_delete(ids)

\* ------------------------------------------------ the dual-write helpers
\* Result of a helper: the store it tried ("none" when it returned at once),
\* whether an exception was raised inside its try block, and the stores.
Shadow(j, d, s, store, failed) ==
    [json |-> j, db |-> d, seq |-> s, shadow |-> store, failed |-> failed]

NoShadow == Shadow(json, db, dbSeq, "none", FALSE)

\* The update loop of _dual_write_update on the JSON list.
JsonApply(s, expense_id, data) ==
    LET k == FirstIndex(s, expense_id)
    IN IF k = 0 THEN s ELSE [s EXCEPT ![k] = ApplyData(s[k], data)]

\* The repository call of each helper, inside the helper's try block.
DbShadow(p) ==
    CASE p.op = "create" ->
           LET c == repo_create(db, dbSeq, convert_to_db_format(p.data))
           IN Shadow(json, c.rows, c.seq, "db", c.raised)
      [] p.op = "update" ->
           LET u == repo_update(db, p.id, convert_to_db_format(p.data))
           IN Shadow(json, u.rows, dbSeq, "db", u.raised)
      [] p.op = "delete" ->
           Shadow(json, repo_delete(db, p.id).rows, dbSeq, "db", FALSE)
      [] p.op = "bulk_delete" ->
           Shadow(json, repo_bulk_delete(db, p.ids).rows, dbSeq, "db", FALSE)

\* The JSON branch of each helper: load, change, save.
JsonShadowOf(p) ==
    CASE p.op = "create" -> Shadow(Append(json, p.data), db, dbSeq, "json", FALSE)
      [] p.op = "update" -> Shadow(JsonApply(json, p.id, p.data), db, dbSeq, "json", FALSE)
      [] p.op = "delete" -> Shadow(SelectNot(json, {p.id}), db, dbSeq, "json", FALSE)
      [] p.op = "bulk_delete" -> Shadow(SelectNot(json, p.ids), db, dbSeq, "json", FALSE)

\* A helper that shadows to the JSON file whenever the database is primary.
expense_dual_write_always_json(p) ==
    IF Flag("USE_DATABASE_STORAGE") THEN JsonShadowOf(p) ELSE NoShadow

\* ExpenseService._dual_write_create / _update / _delete / _bulk_delete
expense_dual_write(p) ==
    IF Flag("USE_DATABASE_STORAGE")
    THEN IF Flag("DUAL_WRITE_ENABLED") THEN JsonShadowOf(p) ELSE NoShadow
    ELSE IF ~Flag("DUAL_WRITE_ENABLED") THEN NoShadow
         ELSE IF ~repository THEN NoShadow
         ELSE DbShadow(p)

\* IncomeService._dual_write_create / _update / _delete / _bulk_delete
income_dual_write(p) ==
    IF ~Flag("DUAL_WRITE_ENABLED") THEN NoShadow
    ELSE IF ~repository THEN NoShadow
    ELSE DbShadow(p)

\* A helper without its try/except: what the shadow operation raises leaves it.
ShadowPropagatesUncaught(sh) == sh.failed

\* except Exception as e: logger.warning(...) -- nothing leaves the helper.
ShadowPropagates(sh) == FALSE

\* ------------------------------------------- PUT /expense/{expense_id}
\* replace_expense of the expense router: the repository directly, no flag
\* is read and no dual-write helper is called.
replace_expense(expense_id, update_data) ==
    IF expense_id \notin RowIds(db)
    THEN [Returned(json, db, dbSeq, ResAbsent, "db") EXCEPT !.outcome = "http404"]
    ELSE LET u == repo_update(db, expense_id, convert_to_db_format(update_data))
         IN IF u.raised
            THEN [Raised(json, db, dbSeq, "primary", "db")
                    EXCEPT !.outcome = "http400"]
            ELSE Returned(json, u.rows, dbSeq, ResRecord(convert_from_db_format(u.instance)),
                          "db")

\* ------------------------------------------------------------- the steps
\* The store a call uses first is out of reach (load_json raises, the
\* session raises): the exception leaves the method, nothing is written.
Unavailable(store) == Raised(json, db, dbSeq, "primary", store)

\* The store the methods of the service read and write first.
PrimaryStore == IF entity = "expense" /\ UseRepository THEN "db" ELSE "json"

NoLast ==
    [op |-> "none", step |-> "none", store |-> "none", outcome |-> "none",
     cause |-> "none", result |-> ResNone, shadow |-> "none", failed |-> FALSE,
     prev |-> "none", id |-> 0]

\* No flag lookup made yet.
NoLookup ==
    [fn |-> "none", name |-> "none", default |-> FALSE, user_id |-> NoUser, db |-> FALSE,
     result |-> "None"]

\* Processes that run create_expense on the same JSON file, and a process
\* that is in no call.
Writers == {1, 2}
NoWriter == [pc |-> "idle", data |-> NoRecord, expenses |-> <<>>, saves |-> 0,
             result |-> ResNone]

\* The stores are empty and no call was made.
Fresh ==
    /\ writers = [w \in Writers |-> NoWriter]
    /\ json = <<>>
    /\ db = {}
    /\ dbSeq = 0
    /\ pend = NoPend
    /\ last = NoLast
    /\ calls = 0
    /\ retired = [json |-> {}, db |-> {}]

\* The services never pass a session to is_feature_enabled: the table plays
\* no part in their runs.
Init ==
    /\ entity \in {"expense", "income"}
    /\ env \in [FlagNames -> EnvStateTokens]
    /\ Fresh
    /\ repository \in BOOLEAN
    /\ flags = [table |-> {}, store |-> "ok", resolved |-> NoLookup]

\* Ids a delete or bulk-delete step removed from each store.
Retire(op, j2, d2) ==
    IF op \in {"delete", "bulk_delete"}
    THEN [json |-> retired.json \cup (SeqIds(json) \ SeqIds(j2)),
          db |-> retired.db \cup (RowIds(db) \ RowIds(d2))]
    ELSE retired

\* For a list call that directly follows a list call that returned, and for
\* a delete call that directly follows a delete call of the same id that
\* returned True: the store the earlier call used.
PrevRead(op, i) ==
    IF \/ op = "list" /\ last.op = "list" /\ last.outcome = "ok"
       \/ /\ op = "delete" /\ last.op = "delete" /\ last.outcome = "ok"
          /\ last.id = i /\ last.result = ResBool(TRUE)
    THEN last.store
    ELSE "none"

\* A service method ran up to its return, its raise or its dual-write call.
\* i is the id the call looked up (0 when it takes none or did not get there).
Primary(op, i, o) ==
    /\ calls < MaxCalls
    /\ SeqIds(o.json) \subseteq Ids
    /\ o.seq <= MaxId
    /\ calls' = calls + 1
    /\ json' = o.json
    /\ db' = o.db
    /\ dbSeq' = o.seq
    /\ pend' = o.pend
    /\ last' = [op |-> op, step |-> "primary", store |-> o.store, outcome |-> o.outcome,
                cause |-> o.cause, result |-> o.result, shadow |-> "none", failed |-> FALSE,
                prev |-> PrevRead(op, i), id |-> IF op = "delete" THEN i ELSE 0]
    /\ retired' = Retire(op, o.json, o.db)
    /\ UNCHANGED <<entity, env, repository, flags, writers>>

Idle == pend.op = "none"

List ==
    /\ Idle
    /\ \/ Primary("list", 0, IF entity = "expense" THEN list_expenses ELSE list_incomes)
       \/ Primary("list", 0, Unavailable(PrimaryStore))

Get ==
    /\ Idle
    /\ \/ \E i \in Ids :
            Primary("get", i, IF entity = "expense" THEN get_expense(i) ELSE get_income(i))
       \/ Primary("get", 0, Unavailable(PrimaryStore))

Create ==
    /\ Idle
    /\ \/ \E data \in CreatePayloads :
            Primary("create", 0,
                    IF entity = "expense" THEN create_expense(data) ELSE create_income(data))
       \/ Primary("create", 0, Unavailable(PrimaryStore))

Update ==
    /\ Idle
    /\ \/ \E i \in Ids, fv \in UpdateInputs :
            Primary("update", i,
                    IF entity = "expense"
                    THEN update_expense(i, fv[1], fv[2])
                    ELSE update_income(i, fv[1], fv[2]))
       \/ Primary("update", 0, Unavailable(PrimaryStore))

Delete ==
    /\ Idle
    /\ \/ \E i \in Ids :
            Primary("delete", i,
                    IF entity = "expense" THEN delete_expense(i) ELSE delete_income(i))
       \/ Primary("delete", 0, Unavailable(PrimaryStore))

BulkDelete ==
    /\ Idle
    /\ \/ \E ids \in BulkIds :
            Primary("bulk_delete", 0,
                    IF entity = "expense"
                    THEN bulk_delete_expenses(ids)
                    ELSE bulk_delete_incomes(ids))
       \/ Primary("bulk_delete", 0, Unavailable(PrimaryStore))

\* The PUT route exists for expenses only; it uses the repository of the
\* service whatever the flags say (Depends(get_db) gives it a session).
Replace ==
    /\ Idle
    /\ entity = "expense"
    /\ repository
    /\ \/ \E i \in Ids, update_data \in ReplacePayloads :
            Primary("replace", i, replace_expense(i, update_data))
       \/ Primary("replace", 0, Unavailable("db"))

\* A helper that is left pending when its store operation raised, to be run
\* again.
DualWriteRetrying ==
    /\ ~Idle
    /\ \E fault \in BOOLEAN :
         LET done == IF entity = "expense"
                     THEN expense_dual_write(pend)
                     ELSE income_dual_write(pend)
             sh == IF fault THEN Shadow(json, db, dbSeq, done.shadow, TRUE) ELSE done
         IN /\ fault => done.shadow # "none"
            /\ json' = sh.json
            /\ db' = sh.db
            /\ dbSeq' = sh.seq
            /\ last' = [last EXCEPT !.step = "shadow", !.outcome = "ok",
                                    !.cause = "none", !.result = pend.result,
                                    !.shadow = sh.shadow, !.failed = sh.failed]
            /\ retired' = Retire(pend.op, sh.json, sh.db)
            /\ pend' = IF sh.failed THEN pend ELSE NoPend
    /\ UNCHANGED <<entity, env, calls, repository, flags, writers>>

\* The dual-write helper of the pending call runs and the method returns.
\* fault: the store the helper writes is out of reach, its operation raises
\* inside the try block.
DualWrite ==
    /\ ~Idle
    /\ \E fault \in BOOLEAN :
         LET done == IF entity = "expense"
                     THEN expense_dual_write(pend)
                     ELSE income_dual_write(pend)
             sh == IF fault THEN Shadow(json, db, dbSeq, done.shadow, TRUE) ELSE done
         IN /\ fault => done.shadow # "none"
            /\ json' = sh.json
            /\ db' = sh.db
            /\ dbSeq' = sh.seq
            /\ last' = [last EXCEPT !.step = "shadow",
                                    !.outcome = IF ShadowPropagates(sh) THEN "raised" ELSE "ok",
                                    !.cause = IF ShadowPropagates(sh) THEN "shadow" ELSE "none",
                                    !.result = IF ShadowPropagates(sh) THEN ResNone ELSE pend.result,
                                    !.shadow = sh.shadow,
                                    !.failed = sh.failed]
            /\ retired' = Retire(pend.op, sh.json, sh.db)
    /\ pend' = NoPend
    /\ UNCHANGED <<entity, env, calls, repository, flags, writers>>

\* The process environment changes (os.environ, patch.dict in the tests),
\* as long as a flag can still be read in the run.
SetEnv ==
    /\ calls < MaxCalls \/ ~Idle
    /\ \E name \in FlagNames, token \in EnvStateTokens :
         /\ token # env[name]
         /\ env' = [env EXCEPT ![name] = token]
    /\ UNCHANGED <<entity, json, db, dbSeq, pend, last, calls, retired, repository, flags, writers>>

Next ==
    \/ List
    \/ Get
    \/ Create
    \/ Update
    \/ Delete
    \/ BulkDelete
    \/ Replace
    \/ DualWrite
    \/ SetEnv

Spec == Init /\ [][Next]_vars

\* --------------------------------------------- flag lookups on their own
\* Any environment, any table within the bound, the table in reach or not.
InitFlags ==
    /\ entity = "expense"
    /\ repository = TRUE
    /\ Fresh
    /\ env \in FlagEnvs
    /\ flags \in [table : FlagTables, store : {"ok", "failing"}, resolved : {NoLookup}]

Looked(fn, flag_name, default, user_id, session, result) ==
    /\ flags' = [flags EXCEPT !.resolved =
                    [fn |-> fn, name |-> flag_name, default |-> default,
                     user_id |-> user_id, db |-> session, result |-> result]]
    /\ UNCHANGED <<entity, env, json, db, dbSeq, pend, last, calls, retired, repository, writers>>

\* A call of is_feature_enabled(flag_name, default, user_id, db).
Resolve ==
    \E flag_name \in FlagNames, default \in BOOLEAN, user_id \in {NoUser, 1},
       session \in BOOLEAN :
      \E result \in is_feature_enabled(env[flag_name], flag_name, default, user_id,
                                       session, flagStore, feature_flags) :
        Looked("is_feature_enabled", flag_name, default, user_id, session, result)

\* A call of get_flag_from_db(flag_name, db, user_id).
Lookup ==
    \E flag_name \in FlagNames, user_id \in {NoUser, 1} :
      \E result \in get_flag_from_db(flag_name, flagStore, feature_flags, user_id) :
        Looked("get_flag_from_db", flag_name, FALSE, user_id, TRUE, result)

NextFlags ==
    \/ Resolve
    \/ Lookup

SpecFlags == InitFlags /\ [][NextFlags]_vars

\* ------------------------------- the two storage-abstraction repositories
\* JsonRepository (core/json_repository.py) and PostgresRepository
\* (core/postgres_repository.py) behind the Repository interface.  Each
\* operator gives the value returned to the caller and the store after the
\* call.  In the specification below the list of JsonRepository is held in
\* json, the table and the sequence of PostgresRepository in db and dbSeq;
\* last.result is what JsonRepository returned and pend.result what
\* PostgresRepository returned for the same call.
ResRaised == [ResNone EXCEPT !.kind = "raised"]

\* item[field] = value on a dict: an unknown field becomes a new key.
SetItem(r, field, value) ==
    [f \in DOMAIN r \cup {field} |-> IF f = field THEN value ELSE r[f]]

\* JsonRepository.list_all
jr_list_all(items) == [result |-> ResList(items), items |-> items]

\* JsonRepository.get_by_id
jr_get_by_id(items, item_id) ==
    LET k == FirstIndex(items, item_id)
    IN  [result |-> IF k = 0 THEN ResAbsent ELSE ResRecord(items[k]), items |-> items]

\* JsonRepository.create: new_id = max(id, default=0) + 1; the data is
\* stored as given.
jr_create(items, data) ==
    LET new_item == Record(NextJsonId(items), data["currency"], data["notes"])
    IN  [result |-> ResRecord(new_item), items |-> Append(items, new_item)]

\* JsonRepository.update
jr_update(items, item_id, field, value) ==
    LET k == FirstIndex(items, item_id)
    IN  IF k = 0 THEN [result |-> ResAbsent, items |-> items]
        ELSE LET item == SetItem(items[k], field, value)
             IN [result |-> ResRecord(item), items |-> [items EXCEPT ![k] = item]]

\* JsonRepository.delete
jr_delete(items, item_id) ==
    LET filtered == SelectNot(items, {item_id})
    IN  IF Len(filtered) < Len(items)
        THEN [result |-> ResBool(TRUE), items |-> filtered]
        ELSE [result |-> ResBool(FALSE), items |-> items]

\* JsonRepository.bulk_delete
jr_bulk_delete(items, ids) ==
    LET filtered == SelectNot(items, ids)
    IN  [result |-> ResCount(Len(items) - Len(filtered)), items |-> filtered]

\* PostgresRepository.list_all: query(model).all(), rows in id order.
pg_list_all(rows, seq) == [result |-> ResList(RowsAsList(rows)), rows |-> rows, seq |-> seq]

\* PostgresRepository.get_by_id
pg_get_by_id(rows, seq, item_id) ==
    [result |-> IF item_id \in RowIds(rows) THEN ResRecord(repo_get(rows, item_id))
                ELSE ResAbsent,
     rows |-> rows, seq |-> seq]

\* PostgresRepository.create: "id" is taken out of the data, the id comes
\* from the sequence; SQLAlchemyError is rolled back and raised again.
pg_create(rows, seq, data) ==
    LET item == Record(seq + 1, data["currency"], data["notes"])
    IN  IF item.currency = NULL
        THEN [result |-> ResRaised, rows |-> rows, seq |-> seq + 1]
        ELSE [result |-> ResRecord(item), rows |-> rows \cup {item}, seq |-> seq + 1]

\* PostgresRepository.update: setattr for every item of the data; an
\* attribute that is no column is not persisted and not in to_dict().
pg_update(rows, seq, item_id, field, value) ==
    LET item == repo_get(rows, item_id)
        upd == IF field \in RecordFields THEN SetField(item, field, value) ELSE item
    IN  IF item_id \notin RowIds(rows)
        THEN [result |-> ResAbsent, rows |-> rows, seq |-> seq]
        ELSE IF upd.id \in RowIds(rows \ {item}) \/ upd.currency = NULL
        THEN [result |-> ResRaised, rows |-> rows, seq |-> seq]
        ELSE [result |-> ResRecord(upd), rows |-> (rows \ {item}) \cup {upd}, seq |-> seq]

\* PostgresRepository.delete
pg_delete(rows, seq, item_id) ==
    [result |-> ResBool(item_id \in RowIds(rows)),
     rows |-> {r \in rows : r.id # item_id}, seq |-> seq]

\* PostgresRepository.bulk_delete
pg_bulk_delete(rows, seq, ids) ==
    [result |-> ResCount(Cardinality({r \in rows : r.id \in ids})),
     rows |-> {r \in rows : r.id \notin ids}, seq |-> seq]

\* Both repositories start empty (the JSON file holds an empty list).
InitRepos ==
    /\ entity = "expense"
    /\ repository = TRUE
    /\ env = [n \in FlagNames |-> ""]
    /\ flags = [table |-> {}, store |-> "ok", resolved |-> NoLookup]
    /\ Fresh

\* The same call made on both repositories.
Called(op, jr, pg) ==
    /\ calls < MaxCalls
    /\ SeqIds(jr.items) \subseteq Ids
    /\ pg.seq <= MaxId
    /\ calls' = calls + 1
    /\ json' = jr.items
    /\ db' = pg.rows
    /\ dbSeq' = pg.seq
    /\ last' = [NoLast EXCEPT !.op = op, !.step = "json", !.result = jr.result]
    /\ pend' = [NoPend EXCEPT !.op = op, !.result = pg.result]
    /\ UNCHANGED <<entity, env, retired, repository, flags, writers>>

RepoList == Called("list", jr_list_all(json), pg_list_all(db, dbSeq))

RepoGet ==
    \E i \in Ids : Called("get", jr_get_by_id(json, i), pg_get_by_id(db, dbSeq, i))

RepoCreate ==
    \E data \in CreatePayloads :
      Called("create", jr_create(json, data), pg_create(db, dbSeq, data))

RepoUpdate ==
    \E i \in Ids, fv \in UpdateInputs :
      Called("update", jr_update(json, i, fv[1], fv[2]), pg_update(db, dbSeq, i, fv[1], fv[2]))

RepoDelete ==
    \E i \in Ids : Called("delete", jr_delete(json, i), pg_delete(db, dbSeq, i))

RepoBulkDelete ==
    \E ids \in BulkIds :
      Called("bulk_delete", jr_bulk_delete(json, ids), pg_bulk_delete(db, dbSeq, ids))

NextRepos ==
    \/ RepoList
    \/ RepoGet
    \/ RepoCreate
    \/ RepoUpdate
    \/ RepoDelete
    \/ RepoBulkDelete

SpecRepos == InitRepos /\ [][NextRepos]_vars

\* --------------------------------- two writers on the JSON file (Phase 2)
\* create_expense of ExpenseService in two processes on one file, both flags
\* off: the call fills the currency, loads the whole list, computes the id,
\* appends and saves the whole list.  Each process keeps the list it loaded
\* (expenses) until it saves; saves is the number of saves the file had seen
\* when the process loaded it.
FileSaves == Cardinality({w \in Writers : writers[w].pc = "done"})

\* The file when the two calls start: empty, or one record.
InitialFiles ==
    {<<>>} \cup {<<Record(i, get_default_currency, n)>> : i \in Ids, n \in NotesValues}

InitWriters ==
    /\ entity = "expense"
    /\ repository = FALSE
    /\ env = [n \in FlagNames |-> ""]
    /\ flags = [table |-> {}, store |-> "ok", resolved |-> NoLookup]
    /\ json \in InitialFiles
    /\ db = {}
    /\ dbSeq = 0
    /\ pend = NoPend
    /\ last = NoLast
    /\ calls = 0
    /\ retired = [json |-> {}, db |-> {}]
    /\ writers = [w \in Writers |-> NoWriter]

WriterStep(w, rec, file) ==
    /\ writers' = [writers EXCEPT ![w] = rec]
    /\ json' = file
    /\ UNCHANGED <<entity, env, db, dbSeq, pend, last, calls, retired, repository, flags>>

\* create_expense(data) is entered: the currency is filled.
WriterCall ==
    \E w \in Writers, data \in CreatePayloads :
      /\ writers[w].pc = "idle"
      /\ LET d1 == FillCurrency(data)
         IN WriterStep(w, [writers[w] EXCEPT !.pc = "called",
                                             !.data = Record(0, d1.currency, d1.notes)],
                       json)

\* expenses = self._load_expenses()
WriterLoad ==
    \E w \in Writers :
      /\ writers[w].pc = "called"
      /\ WriterStep(w, [writers[w] EXCEPT !.pc = "loaded", !.expenses = json,
                                          !.saves = FileSaves],
                    json)

\* A save that reads the file again and appends to what it holds now.
writer_save_merging(w) ==
    LET expense == [writers[w].data EXCEPT !.id = NextJsonId(json)]
    IN  [file |-> Append(json, expense), result |-> ResRecord(expense)]

\* new_id = max(...) + 1; expenses.append(expense);
\* self._save_expenses(expenses): the list the process loaded replaces the
\* file.
writer_save(w) ==
    LET expense == [writers[w].data EXCEPT !.id = NextJsonId(writers[w].expenses)]
    IN  [file |-> Append(writers[w].expenses, expense), result |-> ResRecord(expense)]

\* The save, and the return of the created record.
WriterSave ==
    \E w \in Writers :
      /\ writers[w].pc = "loaded"
      /\ LET s == writer_save(w)
         IN WriterStep(w, [writers[w] EXCEPT !.pc = "done", !.result = s.result], s.file)

NextWriters ==
    \/ WriterCall
    \/ WriterLoad
    \/ WriterSave

SpecWriters == InitWriters /\ [][NextWriters]_vars

\* ------------------------- ExpenseService with the flags held, no failure
\* Phase 3 or Phase 4 for the whole run (DUAL_WRITE_ENABLED on), a service
\* with a repository, both stores empty at the start; no store is out of
\* reach and no shadow operation raises.
InitAgree ==
    /\ entity = "expense"
    /\ repository = TRUE
    /\ env \in {e \in [FlagNames -> EnvStateTokens] : e["DUAL_WRITE_ENABLED"] = "true"}
    /\ flags = [table |-> {}, store |-> "ok", resolved |-> NoLookup]
    /\ Fresh

NoFailure == ~last'.failed /\ last'.cause # "primary"

NextAgree ==
    \/ Create /\ NoFailure
    \/ Update /\ NoFailure
    \/ Delete /\ NoFailure
    \/ BulkDelete /\ NoFailure
    \/ DualWrite /\ NoFailure

SpecAgree == InitAgree /\ [][NextAgree]_vars

\* ------------------------- the services over a table that holds flag rows
\* ExpenseService while rows for the two routing flags are in the
\* feature_flags table (global rows: the service passes no user_id); the
\* environment is held.
RoutingTables == {T \in FlagTables : \A r \in T : r.user_id = NoUser}

InitRouting ==
    /\ entity = "expense"
    /\ repository \in BOOLEAN
    /\ env \in [FlagNames -> EnvStateTokens]
    /\ flags \in [table : RoutingTables, store : {"ok"}, resolved : {NoLookup}]
    /\ Fresh

NextRouting ==
    \/ List
    \/ Get
    \/ Create
    \/ Update
    \/ Delete
    \/ BulkDelete
    \/ DualWrite

SpecRouting == InitRouting /\ [][NextRouting]_vars

\* ------------------------------- the services on the shipped core/storage
\* core/storage.py as it is in the repository: load_json and save_json
\* raise RuntimeError on every call.  (In the specifications above the
\* functions are taken to work, as under the patches of the test suite.)
\* load_json_works: a load_json that returns the content of the file.
load_json_works == "value"

load_json == "RuntimeError"

save_json == "RuntimeError"

\* Every JSON branch starts with _load_expenses / _load_incomes, so a step
\* on the JSON file is the raise of load_json: out of the method when the
\* file is primary, into the except clause of the helper when it is shadow.
Shipped ==
    /\ (calls' = calls + 1 /\ last'.store = "json" /\ load_json = "RuntimeError")
         => (last'.outcome = "raised" /\ last'.cause = "primary")
    /\ (pend.op # "none" /\ pend'.op = "none" /\ last'.shadow = "json"
          /\ load_json = "RuntimeError")
         => last'.failed
    /\ save_json = "RuntimeError" => json' = json

NextShipped ==
    \/ List /\ Shipped
    \/ Get /\ Shipped
    \/ Create /\ Shipped
    \/ Update /\ Shipped
    \/ Delete /\ Shipped
    \/ BulkDelete /\ Shipped
    \/ Replace /\ Shipped
    \/ DualWrite /\ Shipped
    \/ SetEnv

SpecShipped == Init /\ [][NextShipped]_vars

TypeOK ==
    /\ entity \in {"expense", "income"}
    /\ SeqIds(json) \subseteq Ids
    /\ RowIds(db) \subseteq Ids
    /\ dbSeq \in 0..MaxId
    /\ calls \in 0..MaxCalls

\* ------------------------------------------------------------ properties
\* A step in which a service method (or the PUT route) starts and runs its
\* primary part, and a step in which the dual-write helper of a call runs.
PrimaryStep == calls' = calls + 1
ShadowStep == pend.op # "none" /\ pend'.op = "none"

MutatingOps == {"create", "update", "delete", "bulk_delete"}

\* C1 (fault isolation): when dual-write is on and the shadow store's
\* operation raises inside the dual-write helper of the expense or of the
\* income service, the call returns normally with exactly the result its
\* primary step produced, and the store the primary step wrote keeps its
\* contents.
C1_FaultIsolation ==
    [][(ShadowStep /\ last'.failed)
         => /\ last'.outcome = "ok"
            /\ last'.result = pend.result
            /\ last'.result = last.result
            /\ (last.store = "json" => json' = json)
            /\ (last.store = "db" => db' = db)]_vars

\* A create whose database write succeeded and whose JSON shadow write failed.
C1_Witness ==
    /\ last.step = "shadow" /\ last.failed /\ last.shadow = "json"
    /\ last.op = "create" /\ last.store = "db"
    /\ last.outcome = "ok" /\ last.result.kind = "record"
    /\ last.result.rec \in db

\* C2 (primary failure propagates): when the primary store's operation
\* raises, the caller gets the error (never a success result), no shadow
\* write follows, and the stores hold what they held before the call.
C2_PrimaryFailurePropagates ==
    [][(PrimaryStep /\ last'.cause = "primary")
         => /\ last'.outcome \in {"raised", "http400"}
            /\ last'.result = ResNone
            /\ pend' = NoPend
            /\ json' = json
            /\ db' = db]_vars

\* An update on the database that raised while the table holds rows.
C2_Witness ==
    /\ last.cause = "primary" /\ last.outcome = "raised"
    /\ last.op = "update" /\ last.store = "db" /\ db # {}

\* C3 (reads touch only the primary store): a list or get call of a
\* service that has a repository reads the database when
\* USE_DATABASE_STORAGE is on and the JSON file when it is off.
C3_ReadsUsePrimaryStore ==
    [][(PrimaryStep /\ last'.op \in {"list", "get"} /\ repository)
         => last'.store = IF Flag("USE_DATABASE_STORAGE") THEN "db" ELSE "json"]_vars

\* What the store selected by USE_DATABASE_STORAGE holds, as a list.
SelectedContent == IF Flag("USE_DATABASE_STORAGE") THEN RowsAsList(db) ELSE json

Phase5 == Flag("USE_DATABASE_STORAGE") /\ ~Flag("DUAL_WRITE_ENABLED")

\* C5 as stated (Phase 5 frame): with USE_DATABASE_STORAGE on and
\* DUAL_WRITE_ENABLED off, create, update, delete and bulk delete of the
\* expense service neither load nor save the JSON file, which stays as it is.
C5_Phase5JsonUntouched_AsStated ==
    [][((PrimaryStep \/ ShadowStep) /\ entity = "expense"
          /\ last'.op \in MutatingOps /\ Phase5)
         => /\ json' = json
            /\ (PrimaryStep => last'.store # "json")
            /\ (ShadowStep => last'.shadow # "json")]_vars

\* C5 amended: the same, for an expense service built with a database
\* session (self.repository is not None).
C5_Phase5JsonUntouched ==
    [][((PrimaryStep \/ ShadowStep) /\ entity = "expense" /\ repository
          /\ last'.op \in MutatingOps /\ Phase5)
         => /\ json' = json
            /\ (PrimaryStep => last'.store # "json")
            /\ (ShadowStep => last'.shadow # "json")]_vars

\* A create in Phase 5 that is complete: the row is in the table, the
\* helper wrote no shadow, the JSON file is still empty.
C5_Witness ==
    /\ entity = "expense" /\ repository /\ Phase5
    /\ last.op = "create" /\ last.step = "shadow" /\ last.outcome = "ok"
    /\ last.store = "db" /\ last.shadow = "none"
    /\ last.result.rec \in db /\ json = <<>>

\* The result says the primary operation changed a record.
Effective(res) ==
    \/ res.kind = "record"
    \/ res.kind = "bool" /\ res.flag
    \/ res.kind = "count" /\ res.n > 0

\* C6 (every mutation is shadowed): when DUAL_WRITE_ENABLED is on and a
\* repository is at hand, every call that changed the primary store --
\* create, update, delete, bulk delete and the full-document replace --
\* attempts the same operation on the other store before it returns.
C6_EveryMutationShadowed ==
    [][((PrimaryStep \/ ShadowStep) /\ last'.outcome = "ok"
          /\ last'.op \in MutatingOps \cup {"replace"} /\ repository
          /\ Flag("DUAL_WRITE_ENABLED") /\ Effective(last'.result))
         => last'.shadow \in {"json", "db"}]_vars

\* C7 (id uniqueness): in the JSON file and in the table, no two records
\* have the same id.
C7_IdsUnique ==
    /\ \A k1, k2 \in 1..Len(json) : json[k1].id = json[k2].id => k1 = k2
    /\ \A r1, r2 \in db : r1.id = r2.id => r1 = r2

\* C8 (ids are not reused): the id a create assigns in its primary store
\* is not the id of a record that delete or bulk delete removed from that
\* store earlier.
C8_IdsNeverReused ==
    [][(PrimaryStep /\ last'.op = "create")
         => /\ (SeqIds(json') \ SeqIds(json)) \cap retired.json = {}
            /\ (RowIds(db') \ RowIds(db)) \cap retired.db = {}]_vars

\* C9 (id immutability): update and replace leave the id of every record
\* of both stores as it was.
C9_IdImmutable ==
    [][((PrimaryStep \/ ShadowStep) /\ last'.op \in {"update", "replace"})
         => /\ Len(json') = Len(json)
            /\ \A k \in 1..Len(json) : json'[k].id = json[k].id
            /\ RowIds(db') = RowIds(db)]_vars

\* C10 (currency never empty): no record of either store has a null or
\* empty currency.
C10_CurrencyNeverEmpty ==
    /\ \A k \in 1..Len(json) : json[k].currency \notin {NULL, ""}
    /\ \A r \in db : r.currency \notin {NULL, ""}

\* The step is a create call with the payload data that ran its primary part.
CreateWith(data) ==
    /\ Idle
    /\ Primary("create", 0,
               IF entity = "expense" THEN create_expense(data) ELSE create_income(data))

\* Ids of the records of a store.
StoreIds(store) == IF store = "db" THEN RowIds(db) ELSE SeqIds(json)

\* C11 (create fills the default currency): a create whose payload has no
\* currency (null) and that gets a record back gets one with the default
\* currency, with a positive integer id that no record of the primary store
\* had, and with the notes that were supplied; that record is in the
\* primary store.
C11_CreateDefaultCurrency ==
    [][(PrimaryStep /\ last'.op = "create" /\ last'.outcome = "pending")
         => \A data \in CreatePayloads :
              (data.currency = NULL /\ CreateWith(data))
                => LET rec == last'.result.rec
                   IN /\ last'.result.kind = "record"
                      /\ rec.currency = get_default_currency
                      /\ rec.notes = data.notes
                      /\ rec.id \in Nat \ {0}
                      /\ rec.id \notin StoreIds(last'.store)
                      /\ IF last'.store = "db"
                         THEN rec \in db'
                         ELSE json' = Append(json, rec)]_vars

\* A create called without currency and with notes is at its dual-write
\* call: the record it made has the default currency and the notes.
C11_Witness ==
    /\ pend.op = "create" /\ pend.given = NULL
    /\ pend.result.rec.currency = get_default_currency
    /\ pend.result.rec.notes = "n"
    /\ pend.result.rec.id = 1
    /\ last.store = "db" /\ pend.result.rec \in db

\* The step is a single-field update call that ran its primary part.
UpdateWith(i, field, value) ==
    /\ Idle
    /\ Primary("update", i,
               IF entity = "expense"
               THEN update_expense(i, field, value)
               ELSE update_income(i, field, value))

\* C12 (invalid field): in every storage mode, an update of an existing
\* record that names a field the record does not have raises the
\* invalid-field validation error and leaves both stores as they were.
C12_InvalidFieldRejected ==
    [][\A i \in Ids :
         (PrimaryStep /\ last'.op = "update"
            /\ UpdateWith(i, "bogus", "n") /\ i \in StoreIds(last'.store))
           => /\ last'.outcome = "raised"
              /\ last'.cause = "invalid_field"
              /\ json' = json
              /\ db' = db]_vars

DeleteWith(i) ==
    /\ Idle
    /\ Primary("delete", i,
               IF entity = "expense" THEN delete_expense(i) ELSE delete_income(i))

ReplaceWith(i, update_data) ==
    /\ Idle
    /\ entity = "expense"
    /\ repository
    /\ Primary("replace", i, replace_expense(i, update_data))

\* Ids in the store the storage mode makes primary: the database when
\* USE_DATABASE_STORAGE is on and the service has a repository, else JSON.
ModePrimaryIds == IF UseRepository THEN RowIds(db) ELSE SeqIds(json)

\* The call ended without a dual-write call and both stores are as before.
NothingWritten == pend' = NoPend /\ json' = json /\ db' = db

\* C13 (absent id): a single-field update, a replace or a delete of an id
\* that the primary store does not hold returns NotFound (absent, false,
\* 404) and leaves the primary and the shadow store unchanged.
C13_AbsentIdNotFound ==
    [][\A i \in Ids :
         (PrimaryStep /\ i \notin ModePrimaryIds)
           => /\ \A fv \in UpdateInputs :
                   UpdateWith(i, fv[1], fv[2])
                     => last'.outcome = "ok" /\ last'.result = ResAbsent /\ NothingWritten
              /\ DeleteWith(i)
                   => last'.outcome = "ok" /\ last'.result = ResBool(FALSE) /\ NothingWritten
              /\ \A update_data \in ReplacePayloads :
                   ReplaceWith(i, update_data)
                     => last'.outcome = "http404" /\ NothingWritten]_vars

BulkDeleteWith(ids) ==
    /\ Idle
    /\ Primary("bulk_delete", 0,
               IF entity = "expense"
               THEN bulk_delete_expenses(ids)
               ELSE bulk_delete_incomes(ids))

\* Positions of the JSON list whose record has its id in ids.
Matched(s, ids) == {k \in 1..Len(s) : s[k].id \in ids}

\* t is s without the records whose id is in ids, the others as they were
\* and in their order.
RemovedExactly(s, t, ids) ==
    /\ Len(t) = Len(s) - Cardinality(Matched(s, ids))
    /\ \A k \in 1..Len(s) :
         k \notin Matched(s, ids)
           => t[k - Cardinality({m \in Matched(s, ids) : m < k})] = s[k]

\* C14 (bulk delete): bulk delete with any mix of existing and absent ids
\* removes from the store it works on exactly the records whose id is in
\* the list, raises nothing, returns the number of records removed, and
\* leaves every other record as it was.
C14_BulkDeleteExact ==
    [][(PrimaryStep /\ last'.op = "bulk_delete")
         => \A ids \in BulkIds :
              BulkDeleteWith(ids)
                => /\ last'.outcome \in {"ok", "pending"}
                   /\ last'.result.kind = "count"
                   /\ IF last'.store = "db"
                      THEN /\ db' = {r \in db : r.id \notin ids}
                           /\ last'.result.n = Cardinality(db) - Cardinality(db')
                           /\ json' = json
                      ELSE /\ RemovedExactly(json, json', ids)
                           /\ last'.result.n = Len(json) - Len(json')
                           /\ db' = db]_vars

\* A bulk delete of an existing and a never assigned id on a store of two
\* records: one record removed, count 1, the other record still there.
C14_Witness ==
    /\ pend.op = "bulk_delete" /\ pend.ids = {1, MaxId + 1}
    /\ pend.result = ResCount(1)
    /\ \/ last.store = "json" /\ SeqIds(json) = {2}
       \/ last.store = "db" /\ RowIds(db) = {2}

\* C15 (delete twice): a delete of an id the store holds returns True and
\* removes it; a delete of the same id that directly follows, on the same
\* store, returns False and leaves the stores as the first call left them.
C15_DeleteTwice ==
    [][(PrimaryStep /\ last'.op = "delete")
         => \A i \in Ids :
              DeleteWith(i)
                => /\ i \in StoreIds(last'.store)
                        => /\ last'.outcome = "pending"
                           /\ last'.result = ResBool(TRUE)
                           /\ i \notin (IF last'.store = "db" THEN RowIds(db')
                                        ELSE SeqIds(json'))
                   /\ (/\ last.op = "delete" /\ last.id = i /\ last.outcome = "ok"
                       /\ last.result = ResBool(TRUE) /\ last.store = last'.store)
                        => /\ last'.outcome = "ok"
                           /\ last'.result = ResBool(FALSE)
                           /\ NothingWritten]_vars

\* The second of two deletes of id 1 in a row on the same store, with
\* another record in that store: it returned False.
C15_Witness ==
    /\ last.op = "delete" /\ last.id = 1 /\ last.prev = last.store
    /\ last.outcome = "ok" /\ last.result = ResBool(FALSE)
    /\ 1 \in retired[last.store]

\* Tokens of EnvTokens that FF_<NAME> recognises, in any letter case.
Truthy == {"true", "TRUE", "1", "yes", "on"}
Falsy == {"false", "0", "No", "off"}
Unrecognised(token) == token \notin Truthy \cup Falsy

\* Rows of the table a lookup of (name, user) can use.
UserRows(name, user) ==
    {r \in feature_flags : r.name = name /\ user # NoUser /\ r.user_id = user}
GlobalRows(name) == {r \in feature_flags : r.name = name /\ r.user_id = NoUser}
EnabledOf(S) == {PyBool(r.enabled) : r \in S}

\* C16 (precedence): is_feature_enabled returns the environment override
\* when FF_<NAME> holds a truthy or falsy token, whatever the table and the
\* default are; otherwise, with a session and a matching row, the enabled
\* value of a matching row; otherwise the default.
C16_FlagPrecedence ==
    resolved.fn = "is_feature_enabled"
      => LET token == env[resolved.name]
             matching == UserRows(resolved.name, resolved.user_id)
                           \cup GlobalRows(resolved.name)
         IN IF token \in Truthy THEN resolved.result = "True"
            ELSE IF token \in Falsy THEN resolved.result = "False"
            ELSE IF resolved.db /\ flagStore = "ok" /\ matching # {}
            THEN resolved.result \in EnabledOf(matching)
            ELSE resolved.result = PyBool(resolved.default)

\* FF_<NAME> is "false" in some letter case, the default is True and the
\* global row of the flag is enabled: the call returned False.
C16_Witness ==
    /\ resolved.fn = "is_feature_enabled" /\ resolved.db /\ flagStore = "ok"
    /\ env[resolved.name] \in Falsy /\ resolved.default
    /\ GlobalRows(resolved.name) = {[name |-> resolved.name, user_id |-> NoUser,
                                     enabled |-> TRUE]}
    /\ resolved.result = "False"

\* C17 (per-user lookup): with a session, a user_id and no environment
\* override, the row of (name, user_id) decides even against a global row
\* of the opposite value; a global row is used only when the user has no row.
C17_UserRowFirst ==
    (/\ resolved.fn \in {"is_feature_enabled", "get_flag_from_db"}
     /\ resolved.db /\ flagStore = "ok" /\ resolved.user_id # NoUser
     /\ resolved.fn = "is_feature_enabled" => Unrecognised(env[resolved.name]))
      => LET mine == UserRows(resolved.name, resolved.user_id)
             global == GlobalRows(resolved.name)
         IN IF mine # {} THEN \A r \in mine : resolved.result = PyBool(r.enabled)
            ELSE IF global # {} THEN resolved.result \in EnabledOf(global)
            ELSE resolved.result = IF resolved.fn = "is_feature_enabled"
                                   THEN PyBool(resolved.default)
                                   ELSE "None"

\* User 1 has an enabled row, the global row of the flag is disabled, the
\* default is False: the call for user 1 returned True.
C17_Witness ==
    /\ resolved.fn = "is_feature_enabled" /\ resolved.db /\ flagStore = "ok"
    /\ resolved.user_id = 1 /\ Unrecognised(env[resolved.name]) /\ ~resolved.default
    /\ feature_flags = {[name |-> resolved.name, user_id |-> 1, enabled |-> TRUE],
                        [name |-> resolved.name, user_id |-> NoUser, enabled |-> FALSE]}
    /\ resolved.result = "True"

\* C18 (lookup failure): when the query on the table raises, get_flag_from_db
\* returns None, no exception leaves either function, and is_feature_enabled
\* without an environment override returns the default.
C18_LookupFailureIsAbsent ==
    (flagStore = "failing" /\ resolved.fn # "none" /\ resolved.db)
      => /\ resolved.result # "Raise"
         /\ resolved.fn = "get_flag_from_db" => resolved.result = "None"
         /\ (resolved.fn = "is_feature_enabled" /\ Unrecognised(env[resolved.name]))
              => resolved.result = PyBool(resolved.default)

\* The query raises while the table holds a disabled row of the flag; the
\* call with default True and no override returned True.
C18_Witness ==
    /\ flagStore = "failing" /\ resolved.fn = "is_feature_enabled" /\ resolved.db
    /\ env[resolved.name] = "" /\ resolved.default
    /\ [name |-> resolved.name, user_id |-> NoUser, enabled |-> FALSE] \in feature_flags
    /\ resolved.result = "True"

\* C19 (income routing): with USE_DATABASE_STORAGE on, an income service
\* that has a repository lists from the database, and create_income writes
\* the database as primary and returns its row; the JSON file is written
\* only by the dual-write step, and only when DUAL_WRITE_ENABLED is on.
C19_IncomeRoutesLikeExpense ==
    [][(entity = "income" /\ repository /\ Flag("USE_DATABASE_STORAGE")
          /\ last'.op \in {"list", "create"})
         => /\ PrimaryStep
                 => /\ last'.store = "db"
                    /\ json' = json
                    /\ (last'.op = "create" /\ last'.outcome = "pending")
                         => last'.result.rec \in db'
            /\ ShadowStep
                 => IF Flag("DUAL_WRITE_ENABLED")
                    THEN last'.shadow = "json"
                    ELSE last'.shadow = "none" /\ json' = json]_vars

ListCall ==
    /\ Idle
    /\ Primary("list", 0, IF entity = "expense" THEN list_expenses ELSE list_incomes)

RowOf(rows, i) == CHOOSE r \in rows : r.id = i

\* C21 (replace frame): a PUT on a row of the table that carries a subset of
\* the fields sets exactly those fields; the id, the fields it does not
\* carry, every other row and the JSON file stay as they were.  A payload
\* that sets currency to null is refused (400) and changes nothing.
C21_ReplaceFrame ==
    [][(PrimaryStep /\ last'.op = "replace")
         => \A i \in Ids, update_data \in ReplacePayloads :
              (i \in RowIds(db) /\ ReplaceWith(i, update_data))
                => LET old == RowOf(db, i)
                       refused == /\ "currency" \in DOMAIN update_data
                                  /\ update_data["currency"] = NULL
                   IN /\ json' = json /\ pend' = NoPend
                      /\ {r \in db' : r.id # i} = {r \in db : r.id # i}
                      /\ IF refused
                         THEN last'.outcome = "http400" /\ db' = db
                         ELSE /\ last'.outcome = "ok"
                              /\ i \in RowIds(db')
                              /\ \A f \in RecordFields :
                                   RowOf(db', i)[f] = IF f \in DOMAIN update_data
                                                      THEN update_data[f]
                                                      ELSE old[f]
                              /\ last'.result = ResRecord(RowOf(db', i))]_vars

\* A PUT that carried only notes, on a table of two rows: row 1 has the new
\* notes and the currency it had, row 2 is still there.
C21_Witness ==
    /\ last.op = "replace" /\ last.outcome = "ok"
    /\ last.result = ResRecord(Record(1, get_default_currency, "n"))
    /\ Record(1, get_default_currency, "n") \in db
    /\ RowIds(db) = {1, 2}

\* C22 (backend equivalence): for any sequence of list, get, create, update,
\* delete and bulk_delete calls made on JsonRepository and on
\* PostgresRepository from empty stores, each call returns the same outcome
\* on both and the two stores hold the same records afterwards.
SameRecords == {json[k] : k \in 1..Len(json)} = db /\ Len(json) = Cardinality(db)
C23_PrimaryBeforeShadow ==
    [][/\ PrimaryStep
          => /\ last'.shadow = "none"
             /\ last'.store = "json" => (db' = db /\ dbSeq' = dbSeq)
             /\ last'.store = "db" => json' = json
             /\ last'.outcome = "raised" => (pend' = NoPend /\ Idle')
             /\ ~Idle' => (last'.outcome = "pending" /\ pend'.result = last'.result)
       /\ ShadowStep
          => /\ last.step = "primary"
             /\ last.outcome = "pending"
             /\ last.op \in MutatingOps
             /\ last'.outcome = "ok"
             /\ last'.result = last.result
             /\ last'.store = last.store]_vars

C23_Witness ==
    /\ last.op = "create" /\ last.step = "shadow" /\ last.store = "json"
    /\ last.shadow = "db" /\ ~last.failed /\ last.outcome = "ok"
    /\ last.result.kind = "record"
    /\ last.result.rec \in db
    /\ json = <<last.result.rec>>

\* The primary operation of a mutating call wrote: it returned a record,
\* True or a positive count.
Wrote(result) ==
    \/ result.kind = "record"
    \/ result = ResBool(TRUE)
    \/ result.kind = "count" /\ result.n > 0

NoRetry ==
    /\ (PrimaryStep /\ last'.op \in MutatingOps)
         => /\ (last'.outcome # "raised" /\ Wrote(last'.result)) <=> ~Idle'
            /\ last'.shadow = "none"
            /\ last'.store = "json" => (db' = db /\ dbSeq' = dbSeq)
            /\ last'.store = "db" => json' = json
    /\ ~Idle => ~PrimaryStep
    /\ (~Idle /\ env' = env) => (ShadowStep /\ Idle' /\ calls' = calls)
    /\ Idle => (pend' = pend \/ PrimaryStep)
    /\ ShadowStep => (~Flag("DUAL_WRITE_ENABLED") => last'.shadow = "none")

\* C24 as stated (no retry): each mutating call of the services attempts its
\* shadow-store operation at most once, and exactly once when both flags
\* select a shadow and the primary operation succeeded; a shadow operation
\* that failed is not retried by that call nor replayed by a later call.
C24_NoRetry_Original ==
    [][/\ NoRetry
       /\ ShadowStep => (Flag("DUAL_WRITE_ENABLED") => last'.shadow # "none")]_vars

\* C24 (no retry), for a service that has a repository: as above, the shadow
\* operation being attempted exactly once when DUAL_WRITE_ENABLED is on, the
\* primary operation wrote and the service was constructed with a session.
C24_NoRetry ==
    [][/\ NoRetry
       /\ ShadowStep
            => ((Flag("DUAL_WRITE_ENABLED") /\ repository) => last'.shadow # "none")]_vars

\* A shadow operation failed and the next call ran: the record is still
\* missing from the shadow store.
C24_Witness ==
    /\ repository
    /\ calls = 2 /\ Idle
    /\ last.op = "update" /\ last.step = "shadow" /\ last.shadow = "db"
    /\ Len(json) = 1
    /\ db = {}

\* C25 (JSON backend under concurrent writers): two create calls that both
\* returned success leave both records in the file under distinct ids when
\* the second call loaded the file after the first had saved it; when both
\* loaded the file before either saved (interleaved calls) both returned
\* records carry the same id and the file holds only the record of the call
\* that saved last -- the other record is lost.
BothCreated == \A w \in Writers : writers[w].pc = "done"
Interleaved == \A w \in Writers : writers[w].saves = 0
InFile(r) == \E k \in 1..Len(json) : json[k] = r
C25_ConcurrentCreateLoses ==
    BothCreated
      => IF Interleaved
         THEN /\ writers[1].result.rec.id = writers[2].result.rec.id
              /\ writers[1].expenses = writers[2].expenses
              /\ \E w \in Writers : json = Append(writers[w].expenses, writers[w].result.rec)
         ELSE /\ writers[1].result.rec.id # writers[2].result.rec.id
              /\ \A w \in Writers : InFile(writers[w].result.rec)
              /\ \E w \in Writers : Len(json) = Len(writers[w].expenses) + 2

\* Both calls returned a record, under the same id, and the record of
\* writer 1 is not in the file.
C25_Witness ==
    /\ BothCreated
    /\ \A w \in Writers : writers[w].result.kind = "record"
    /\ writers[1].result.rec.id = writers[2].result.rec.id
    /\ writers[1].result.rec # writers[2].result.rec
    /\ ~InFile(writers[1].result.rec)
    /\ Len(json) = 2

\* C26 (consistent store roles inside one call): for every ExpenseService
\* mutating call the store written as shadow is the store other than the one
\* written as primary, whatever changes of USE_DATABASE_STORAGE and
\* DUAL_WRITE_ENABLED happen between the primary and the shadow step.
C26_ShadowIsOtherStore ==
    [][(ShadowStep /\ entity = "expense" /\ last'.shadow # "none")
         => last'.shadow # last'.store]_vars

IdsOf(store, j, d) == IF store = "json" THEN SeqIds(j) ELSE RowIds(d)
SizeOf(store, j, d) == IF store = "json" THEN Len(j) ELSE Cardinality(d)
OtherStore(store) == IF store = "json" THEN "db" ELSE "json"

\* Records of a store under one id, and whether the pending call itself put
\* the id into the primary store (an update of the field id to a value no
\* other record of the primary store carries).
CountOf(store, j, d, i) ==
    IF store = "json" THEN Cardinality({k \in 1..Len(j) : j[k].id = i})
    ELSE Cardinality({r \in d : r.id = i})
PutByCall(P, i) ==
    /\ pend.op = "update"
    /\ "id" \in DOMAIN pend.data
    /\ pend.data["id"] = i
    /\ CountOf(P, json, db, i) = 1

\* C28 (no repair of divergence): a shadow update, delete or bulk-delete for
\* an id that is absent from the shadow store adds no record to it, so an id
\* that was in the primary store and not in the shadow store before an
\* update, delete or bulk-delete call, and is still in the primary store when
\* the helper of the call runs, is not in the shadow store after it.
C28_NoRepair ==
    [][(ShadowStep /\ pend.op \in {"update", "delete", "bulk_delete"} /\ last'.shadow # "none")
         => LET S == last'.shadow
                P == OtherStore(S)
            IN /\ SizeOf(S, json', db') <= SizeOf(S, json, db)
               /\ (pend.op = "update" /\ pend.id \notin IdsOf(S, json, db))
                    => (json' = json /\ db' = db)
               /\ \A i \in IdsOf(P, json, db) \ IdsOf(S, json, db) :
                    ~PutByCall(P, i) => i \notin IdsOf(S, json', db')]_vars

\* The routing the environment alone prescribes.
EnvOn(name) == env[name] \in Truthy
EnvPrimary == IF entity = "expense" /\ EnvOn("USE_DATABASE_STORAGE") /\ repository
              THEN "db" ELSE "json"
EnvShadow ==
    IF ~EnvOn("DUAL_WRITE_ENABLED") THEN "none"
    ELSE IF entity = "expense" /\ EnvOn("USE_DATABASE_STORAGE") THEN "json"
    ELSE IF repository THEN "db" ELSE "none"

\* C29 (routing ignores database flag rows): which store a call reads or
\* writes as primary and whether (and where) its shadow write happens are
\* fixed by FF_USE_DATABASE_STORAGE and FF_DUAL_WRITE_ENABLED (false when
\* unset), whatever rows the feature_flags table holds for these names; the
\* services neither read a row nor change the table.
C29_RoutingIgnoresRows ==
    [][/\ PrimaryStep => last'.store = EnvPrimary
       /\ ShadowStep => last'.shadow = EnvShadow
       /\ flags' = flags]_vars

\* The table enables USE_DATABASE_STORAGE globally, the environment does not
\* set it, the service has a repository: the create went to the JSON file.
C29_Witness ==
    /\ entity = "expense" /\ repository
    /\ env["USE_DATABASE_STORAGE"] = ""
    /\ [name |-> "USE_DATABASE_STORAGE", user_id |-> NoUser, enabled |-> TRUE] \in feature_flags
    /\ last.op = "create" /\ last.outcome = "ok" /\ last.store = "json"
    /\ Len(json) = 1 /\ db = {}

====
